---- MODULE Spec2Model ----
(***************************************************************************)
(* The date-range rate store, the availability aggregator and the public   *)
(* room search of the hotel booking backend, as a state machine over the   *)
(* database tables.  Dates are day numbers; timedelta(days=1) is +1.       *)
(* Money is an integer amount; every price is a multiple of 100 so that a  *)
(* percentage of a total is exact.                                         *)
(***************************************************************************)
EXTENDS Integers, FiniteSets, Sequences, Bags, TLC

VARIABLES room_types, room_seq, room_rates, bookings, room_blocks,
          rate_plans, promo_codes, resp, session

vars == <<room_types, room_seq, room_rates, bookings, room_blocks,
          rate_plans, promo_codes, resp, session>>

\* ------------------------------------------------------------------ bounds
MaxDay == 4
MaxRates == 3
MaxRooms == 2
MaxBookings == 2
MaxBlocks == 1

Days == 1..MaxDay
Hotels == {"h1", "h2"}
NoPlan == "none"
Prices == {100, 200}
NegPrice == 0 - 100

\* ------------------------------------------------------------- bag helpers
RECURSIVE SumOver(_, _)
SumOver(f, S) ==
    IF S = {} THEN 0
    ELSE LET x == CHOOSE y \in S : TRUE IN f[x] + SumOver(f, S \ {x})

Rows(table) == BagToSet(table)
Copies(table, x) == CopiesIn(x, table)
NumRows(table) == BagCardinality(table)

\* --------------------------------------------------------------- RoomRate
RoomRate(h, r, plan, f, t, p) ==
    [hotel_id |-> h, room_type_id |-> r, rate_plan_id |-> plan,
     date_from |-> f, date_to |-> t, price |-> p]

\* ExistingRates with strict comparisons of the dates.
ExistingRates_Strict(table, h, r, a, b) ==
    { x \in Rows(table) :
        /\ x.hotel_id = h
        /\ x.room_type_id = r
        /\ x.rate_plan_id = NoPlan
        /\ x.date_from < b
        /\ x.date_to > a }

\* ExistingRates without the filter on the caller's hotel.
ExistingRates_AnyHotel(table, h, r, a, b) ==
    { x \in Rows(table) :
        /\ x.room_type_id = r
        /\ x.rate_plan_id = NoPlan
        /\ x.date_from <= b
        /\ x.date_to >= a }

\* The statement of update_daily_rates: base-price rows of the caller's
\* hotel and the named room type whose range meets [start_date, end_date].
ExistingRates(table, h, r, a, b) ==
    { x \in Rows(table) :
        /\ x.hotel_id = h
        /\ x.room_type_id = r
        /\ x.rate_plan_id = NoPlan
        /\ x.date_from <= b
        /\ x.date_to >= a }

\* ProcessOverlap with the tail of a split starting on end_date itself.
ProcessOverlap_TailAtEnd(x, a, b) ==
    IF x.date_from >= a /\ x.date_to <= b
    THEN {}
    ELSE IF x.date_from < a /\ x.date_to >= a
    THEN IF x.date_to > b
         THEN { [x EXCEPT !.date_to = a - 1],
                RoomRate(x.hotel_id, x.room_type_id, NoPlan, b, x.date_to, x.price) }
         ELSE { [x EXCEPT !.date_to = a - 1] }
    ELSE IF x.date_from <= b /\ x.date_to > b
    THEN { [x EXCEPT !.date_from = b + 1] }
    ELSE { x }

\* ProcessOverlap without the split: an enclosing row is only trimmed.
ProcessOverlap_NoTail(x, a, b) ==
    IF x.date_from >= a /\ x.date_to <= b
    THEN {}
    ELSE IF x.date_from < a /\ x.date_to >= a
    THEN { [x EXCEPT !.date_to = a - 1] }
    ELSE IF x.date_from <= b /\ x.date_to > b
    THEN { [x EXCEPT !.date_from = b + 1] }
    ELSE { x }

\* ProcessOverlap that keeps a row lying inside [start_date, end_date].
ProcessOverlap_NoDelete(x, a, b) ==
    IF x.date_from >= a /\ x.date_to <= b
    THEN { x }
    ELSE IF x.date_from < a /\ x.date_to >= a
    THEN IF x.date_to > b
         THEN { [x EXCEPT !.date_to = a - 1],
                RoomRate(x.hotel_id, x.room_type_id, NoPlan, b + 1, x.date_to, x.price) }
         ELSE { [x EXCEPT !.date_to = a - 1] }
    ELSE IF x.date_from <= b /\ x.date_to > b
    THEN { [x EXCEPT !.date_from = b + 1] }
    ELSE { x }

\* What the loop over existing_rates leaves of one selected row.
ProcessOverlap(x, a, b) ==
    IF x.date_from >= a /\ x.date_to <= b
    THEN {}
    ELSE IF x.date_from < a /\ x.date_to >= a
    THEN IF x.date_to > b
         THEN { [x EXCEPT !.date_to = a - 1],
                RoomRate(x.hotel_id, x.room_type_id, NoPlan, b + 1, x.date_to, x.price) }
         ELSE { [x EXCEPT !.date_to = a - 1] }
    ELSE IF x.date_from <= b /\ x.date_to > b
    THEN { [x EXCEPT !.date_from = b + 1] }
    ELSE { x }

\* The table after the rewrite of the selected rows and the insert of the
\* new row (steps 3 and 4 of update_daily_rates).
RewriteRates(table, h, r, a, b, p) ==
    LET sel == ExistingRates(table, h, r, a, b)
        new == RoomRate(h, r, NoPlan, a, b, p)
        kept == Rows(table) \ sel
        made == UNION { ProcessOverlap(x, a, b) : x \in sel }
        dom == kept \cup made \cup {new}
        from(y) == [x \in sel |-> IF y \in ProcessOverlap(x, a, b)
                                  THEN Copies(table, x) ELSE 0]
    IN [y \in dom |->
          (IF y \in kept THEN Copies(table, y) ELSE 0)
          + SumOver(from(y), sel)
          + (IF y = new THEN 1 ELSE 0)]

\* update_daily_rates: no check of the room type, of the order of the dates
\* or of the sign of the price precedes the rewrite; the handler answers
\* 200 "Rates updated successfully" on every input.
UpdateDailyRates(h, r, a, b, p) ==
    /\ room_rates' = RewriteRates(room_rates, h, r, a, b, p)
    /\ resp' = [op |-> "update_daily_rates", hotel_id |-> h, room_type_id |-> r,
                start_date |-> a, end_date |-> b, price |-> p, status |-> 200]
    /\ UNCHANGED <<room_types, room_seq, bookings, room_blocks, rate_plans, promo_codes, session>>

\* The steps of update_daily_rates inside its database session.  session
\* holds the handler's position and the writes the session has sent but not
\* committed: the selected rows it deletes or rewrites (deleted), the rows
\* it writes in their place and the new row (added), and the table as the
\* session sees it (pending); room_rates is what the database has committed.
\* The select: the loop starts with the rows of existing_rates.
BeginUpdate(h, r, a, b, p) ==
    /\ session.pc = "idle"
    /\ session' = [pc |-> "loop", hotel_id |-> h, room_type_id |-> r,
                   start_date |-> a, end_date |-> b, price |-> p,
                   existing_rates |->
                       LET sel == ExistingRates(room_rates, h, r, a, b)
                       IN [x \in sel |-> Copies(room_rates, x)],
                   deleted |-> EmptyBag, added |-> EmptyBag,
                   pending |-> room_rates]
    /\ UNCHANGED <<room_types, room_seq, room_rates, bookings, room_blocks,
                   rate_plans, promo_codes, resp>>

\* AfterFlush for a session that commits each statement as it is sent.
AfterFlush_Autocommit(committed, pending) == pending

\* The committed table after the session has sent writes without commit.
AfterFlush(committed, pending) == committed

\* One iteration of the loop: session.delete or session.add for one row.
ProcessExisting(x) ==
    /\ session.pc = "loop"
    /\ BagIn(x, session.existing_rates)
    /\ LET pending == (session.pending (-) SetToBag({x}))
                       (+) SetToBag(ProcessOverlap(x, session.start_date, session.end_date))
       IN /\ session' = [session EXCEPT
                            !.existing_rates = @ (-) SetToBag({x}),
                            !.deleted = @ (+) SetToBag({x}),
                            !.added = @ (+) SetToBag(ProcessOverlap(x, session.start_date,
                                                                    session.end_date)),
                            !.pending = pending]
          /\ room_rates' = AfterFlush(room_rates, pending)
    /\ UNCHANGED <<room_types, room_seq, bookings, room_blocks, rate_plans,
                   promo_codes, resp>>

\* session.flush() after the loop, then session.add(new_rate).
InsertNewRate ==
    /\ session.pc = "loop"
    /\ session.existing_rates = EmptyBag
    /\ LET new_rate == RoomRate(session.hotel_id, session.room_type_id, NoPlan,
                                session.start_date, session.end_date, session.price)
           pending == session.pending (+) SetToBag({new_rate})
       IN /\ session' = [session EXCEPT !.pc = "commit",
                                        !.added = @ (+) SetToBag({new_rate}),
                                        !.pending = pending]
          /\ room_rates' = AfterFlush(room_rates, pending)
    /\ UNCHANGED <<room_types, room_seq, bookings, room_blocks, rate_plans,
                   promo_codes, resp>>

\* session.commit() and the response: the session's deletes and inserts
\* reach the committed table, whatever other sessions have committed to it
\* since the select.
CommitUpdate ==
    /\ session.pc = "commit"
    /\ room_rates' = (room_rates (-) session.deleted) (+) session.added
    /\ resp' = [op |-> "update_daily_rates", hotel_id |-> session.hotel_id,
                room_type_id |-> session.room_type_id,
                start_date |-> session.start_date, end_date |-> session.end_date,
                price |-> session.price, status |-> 200]
    /\ session' = [pc |-> "idle"]
    /\ UNCHANGED <<room_types, room_seq, bookings, room_blocks, rate_plans, promo_codes>>

\* A second update_daily_rates request served in a database session of its
\* own while the first is between its select and its commit.  Nothing
\* orders the two: no lock is taken and the select sees committed rows
\* only.  The second call is taken whole at the point of its commit; the
\* schedules covered are those in which it selects none of the rows the
\* first has selected, so that neither waits for a row of the other.
ConcurrentUpdate(h, r, a, b, p) ==
    /\ session.pc # "idle"
    /\ ExistingRates(room_rates, h, r, a, b)
         \cap (Rows(session.existing_rates) \cup Rows(session.deleted)) = {}
    /\ UpdateDailyRates(h, r, a, b, p)

\* The handler dies before the commit: the session closes, its
\* transaction is rolled back and no response is sent.
CrashUpdate ==
    /\ session.pc # "idle"
    /\ resp' = [op |-> "crash", hotel_id |-> session.hotel_id,
                room_type_id |-> session.room_type_id,
                start_date |-> session.start_date, end_date |-> session.end_date,
                price |-> session.price, pc |-> session.pc]
    /\ session' = [pc |-> "idle"]
    /\ UNCHANGED <<room_types, room_seq, room_rates, bookings, room_blocks,
                   rate_plans, promo_codes>>

\* The same operation for a rate plan's rows: the rows of the key (room
\* type, plan) that meet [a, b] are deleted, trimmed or split, then the new
\* row is inserted.
PlanRewrite(table, h, r, plan, a, b, p) ==
    LET sel == { x \in Rows(table) :
                   /\ x.hotel_id = h /\ x.room_type_id = r /\ x.rate_plan_id = plan
                   /\ x.date_from <= b /\ x.date_to >= a }
        new == RoomRate(h, r, plan, a, b, p)
        cut(x) == IF x.date_from >= a /\ x.date_to <= b THEN {}
                  ELSE IF x.date_from < a
                  THEN { [x EXCEPT !.date_to = a - 1] }
                       \cup (IF x.date_to > b THEN { [x EXCEPT !.date_from = b + 1] } ELSE {})
                  ELSE { [x EXCEPT !.date_from = b + 1] }
        kept == Rows(table) \ sel
        dom == kept \cup UNION { cut(x) : x \in sel } \cup {new}
        from(y) == [x \in sel |-> IF y \in cut(x) THEN Copies(table, x) ELSE 0]
    IN [y \in dom |->
          (IF y \in kept THEN Copies(table, y) ELSE 0)
          + SumOver(from(y), sel)
          + (IF y = new THEN 1 ELSE 0)]

SetPlanRate(h, r, plan, a, b, p) ==
    /\ a <= b /\ p >= 0
    /\ room_rates' = PlanRewrite(room_rates, h, r, plan, a, b, p)
    /\ resp' = [op |-> "set_plan_rate", hotel_id |-> h, status |-> 200]
    /\ UNCHANGED <<room_types, room_seq, bookings, room_blocks, rate_plans, promo_codes, session>>

\* --------------------------------------------------------------- RoomType
RoomType(id, h, cfg) ==
    [id |-> id, hotel_id |-> h, base_price |-> cfg.base_price,
     total_inventory |-> cfg.total_inventory,
     base_occupancy |-> cfg.base_occupancy, max_occupancy |-> cfg.max_occupancy,
     max_children |-> cfg.max_children,
     extra_person_price |-> cfg.extra_person_price, is_active |-> cfg.is_active]

\* A RoomTypeCreate body with the model's defaults for occupancy and a
\* surcharge of 100 per extra person.
RoomCfg(inventory) ==
    [base_price |-> 300, total_inventory |-> inventory, base_occupancy |-> 2,
     max_occupancy |-> 3, max_children |-> 1, extra_person_price |-> 100,
     is_active |-> TRUE]

\* The same body with extra_person_price left at its default, 0.
RoomCfgNoExtra(inventory) ==
    [RoomCfg(inventory) EXCEPT !.extra_person_price = 0]

\* create_room: the new room type gets a fresh id and the caller's hotel.
CreateRoom(h, cfg) ==
    /\ room_seq < MaxRooms
    /\ room_seq' = room_seq + 1
    /\ room_types' = room_types \cup {RoomType(room_seq + 1, h, cfg)}
    /\ resp' = [op |-> "create_room", hotel_id |-> h, id |-> room_seq + 1, status |-> 201]
    /\ UNCHANGED <<room_rates, bookings, room_blocks, rate_plans, promo_codes, session>>

\* ---------------------------------------------------------------- Booking
NoPromo == "none"

Booking(h, rooms, ci, co, promo, st) ==
    [hotel_id |-> h, rooms |-> rooms, check_in |-> ci, check_out |-> co,
     promo_code |-> promo, status |-> st]

\* create_public_booking: rooms is the list of the room_type_id of the
\* room selections.  The hotel is the one of the first room type; the
\* other entries and the dates are stored as sent.
CreatePublicBooking(rooms, ci, co, promo) ==
    /\ UNCHANGED <<room_types, room_seq, room_rates, room_blocks, rate_plans, promo_codes, session>>
    /\ IF rooms = <<>>
       THEN /\ resp' = [op |-> "create_public_booking", status |-> 400]
            /\ UNCHANGED bookings
       ELSE IF ~\E rt \in room_types : rt.id = rooms[1]
       THEN /\ resp' = [op |-> "create_public_booking", status |-> 404]
            /\ UNCHANGED bookings
       ELSE LET room_type == CHOOSE rt \in room_types : rt.id = rooms[1]
                booking == Booking(room_type.hotel_id, rooms, ci, co, promo, "pending")
            IN /\ bookings' = bookings (+) SetToBag({booking})
               /\ resp' = [op |-> "create_public_booking", status |-> 200,
                           booking |-> booking]

\* The agent's cancel_booking tool, for the booking row k found by its
\* booking number.
CancelBooking(h, k) ==
    /\ UNCHANGED <<room_types, room_seq, room_rates, room_blocks, rate_plans, promo_codes, session>>
    /\ LET req == [op |-> "cancel_booking", hotel_id |-> h, booking |-> k]
       IN IF ~(BagIn(k, bookings) /\ k.hotel_id = h)
          THEN /\ resp' = req @@ [message |-> "not found"]
               /\ UNCHANGED bookings
          ELSE IF k.status = "cancelled"
          THEN /\ resp' = req @@ [message |-> "already cancelled"]
               /\ UNCHANGED bookings
          ELSE /\ bookings' = (bookings (-) SetToBag({k}))
                               (+) SetToBag({[k EXCEPT !.status = "cancelled"]})
               /\ resp' = req @@ [message |-> "cancelled"]

\* The next status of the lifecycle pending -> confirmed -> checked_in ->
\* checked_out; a checked-out or cancelled booking has none.
NextStatus(st) ==
    IF st = "pending" THEN {"confirmed"}
    ELSE IF st = "confirmed" THEN {"checked_in"}
    ELSE IF st = "checked_in" THEN {"checked_out"}
    ELSE {}

\* The booking row k of hotel h moves one step along the lifecycle.
AdvanceBooking(h, k) ==
    /\ UNCHANGED <<room_types, room_seq, room_rates, room_blocks, rate_plans, promo_codes, session>>
    /\ LET req == [op |-> "advance_booking", hotel_id |-> h, booking |-> k]
       IN IF ~(BagIn(k, bookings) /\ k.hotel_id = h)
          THEN /\ resp' = req @@ [status |-> 404]
               /\ UNCHANGED bookings
          ELSE IF NextStatus(k.status) = {}
          THEN /\ resp' = req @@ [status |-> 400]
               /\ UNCHANGED bookings
          ELSE \E st \in NextStatus(k.status) :
                 /\ bookings' = (bookings (-) SetToBag({k}))
                                 (+) SetToBag({[k EXCEPT !.status = st]})
                 /\ resp' = req @@ [status |-> 200]

\* -------------------------------------------------------------- RoomBlock
RoomBlock(h, r, s, e, c) ==
    [hotel_id |-> h, room_type_id |-> r, start_date |-> s, end_date |-> e,
     blocked_count |-> c]

\* create_block: RoomBlockCreate requires blocked_count >= 1; the block is
\* stored under the caller's hotel with the room_type_id of the request.
\* Only the foreign key room_blocks.room_type_id -> room_types.id stands
\* between the request and the table: a database that enforces it fails
\* the commit for an unknown room type, one that does not stores the row.
CreateBlock(h, r, s, e, c) ==
    /\ UNCHANGED <<room_types, room_seq, room_rates, bookings, rate_plans, promo_codes, session>>
    /\ LET req == [op |-> "create_block", hotel_id |-> h, room_type_id |-> r]
       IN IF c < 1
          THEN /\ resp' = req @@ [status |-> 422]
               /\ UNCHANGED room_blocks
          ELSE \/ /\ room_blocks' = room_blocks (+) SetToBag({RoomBlock(h, r, s, e, c)})
                  /\ resp' = req @@ [status |-> 200]
               \/ /\ ~\E rt \in room_types : rt.id = r
                  /\ resp' = req @@ [status |-> 500]
                  /\ UNCHANGED room_blocks

\* DeleteBlock that looks the block up by its id alone.
DeleteBlock_AnyHotel(h, k) ==
    /\ UNCHANGED <<room_types, room_seq, room_rates, bookings, rate_plans, promo_codes, session>>
    /\ LET req == [op |-> "delete_block", hotel_id |-> h, block |-> k]
       IN IF ~BagIn(k, room_blocks)
          THEN /\ resp' = req @@ [status |-> 404]
               /\ UNCHANGED room_blocks
          ELSE /\ room_blocks' = room_blocks (-) SetToBag({k})
               /\ resp' = req @@ [status |-> 200]

\* delete_block, for the block row k found by its id: the row must be one
\* of the caller's hotel.
DeleteBlock(h, k) ==
    /\ UNCHANGED <<room_types, room_seq, room_rates, bookings, rate_plans, promo_codes, session>>
    /\ LET req == [op |-> "delete_block", hotel_id |-> h, block |-> k]
       IN IF ~(BagIn(k, room_blocks) /\ k.hotel_id = h)
          THEN /\ resp' = req @@ [status |-> 404]
               /\ UNCHANGED room_blocks
          ELSE /\ room_blocks' = room_blocks (-) SetToBag({k})
               /\ resp' = req @@ [status |-> 200]

\* The agent's block_room_dates tool for user user_id.  dates_ok says
\* whether both strings parse as ISO dates; names is the set of room types
\* whose name contains room_type_name.  logic_block_room receives the
\* user's id and uses it where the hotel's id is meant, in the query and in
\* the block it stores.
BlockRoomDates(user_id, names, dates_ok, s, e) ==
    /\ UNCHANGED <<room_types, room_seq, room_rates, bookings, rate_plans, promo_codes, session>>
    /\ LET req == [op |-> "block_room_dates", user_id |-> user_id, names |-> names,
                   dates_ok |-> dates_ok, start_date |-> s, end_date |-> e]
           found == { rt \in room_types : rt.hotel_id = user_id /\ rt.id \in names }
       IN IF ~dates_ok
          THEN /\ resp' = req @@ [message |-> "Invalid date format"]
               /\ UNCHANGED room_blocks
          ELSE IF found = {}
          THEN /\ resp' = req @@ [message |-> "Error: not found"]
               /\ UNCHANGED room_blocks
          ELSE \E room_type \in found :
                 /\ room_blocks' = room_blocks
                                    (+) SetToBag({RoomBlock(user_id, room_type.id, s, e, 1)})
                 /\ resp' = req @@ [message |-> "Success"]

\* ------------------------------------------------------------ delete_room
\* Cascade that deletes nothing.
Cascade_Nothing(table, r) == table

\* The manual cascade: delete(...).where(room_type_id == room_id).
Cascade(table, r) ==
    [k \in { x \in Rows(table) : x.room_type_id # r } |-> Copies(table, k)]

\* delete_room: the room type must be one of the caller's hotel; its blocks
\* and rates go with it.
DeleteRoom(h, r) ==
    /\ UNCHANGED <<room_seq, bookings, rate_plans, promo_codes, session>>
    /\ LET req == [op |-> "delete_room", hotel_id |-> h, id |-> r]
           room == { x \in room_types : x.id = r /\ x.hotel_id = h }
       IN IF room = {}
          THEN /\ resp' = req @@ [status |-> 404]
               /\ UNCHANGED <<room_types, room_rates, room_blocks>>
          ELSE /\ room_blocks' = Cascade(room_blocks, r)
               /\ room_rates' = Cascade(room_rates, r)
               /\ room_types' = room_types \ room
               /\ resp' = req @@ [status |-> 204]

\* ------------------------------------------------------- get_availability
\* The orders in which a query may return a set of rows.
RECURSIVE Orderings(_)
Orderings(S) ==
    IF S = {} THEN { <<>> }
    ELSE UNION { { <<x>> \o s : s \in Orderings(S \ {x}) } : x \in S }

\* price_map.get((room.id, day), room.base_price) for a price_map filled by
\* iterating the rows in the order rs: the last row covering the day wins.
PriceMapGet(rs, r, d, default) ==
    LET hits == { i \in DOMAIN rs : /\ rs[i].room_type_id = r
                                    /\ rs[i].date_from <= d
                                    /\ d <= rs[i].date_to }
    IN IF hits = {} THEN default
       ELSE rs[CHOOSE i \in hits : \A j \in hits : j <= i].price

\* Step 5 of get_availability: the base-price rows of the hotel that meet
\* the window.
DailyRates(table, h, start, end) ==
    { x \in Rows(table) :
        /\ x.hotel_id = h
        /\ x.rate_plan_id = NoPlan
        /\ x.date_from <= end
        /\ x.date_to >= start }

\* OverlappingBookings without the filter on the status.
OverlappingBookings_AnyStatus(h, start, end) ==
    { k \in Rows(bookings) :
        /\ k.hotel_id = h
        /\ k.check_in <= end
        /\ k.check_out > start }

\* Step 2: the non-cancelled bookings of the hotel that meet the window.
OverlappingBookings(h, start, end) ==
    { k \in Rows(bookings) :
        /\ k.hotel_id = h
        /\ k.status # "cancelled"
        /\ k.check_in <= end
        /\ k.check_out > start }

\* Step 3: the blocks of the hotel that meet the window.
OverlappingBlocks(h, start, end) ==
    { k \in Rows(room_blocks) :
        /\ k.hotel_id = h
        /\ k.start_date <= end
        /\ k.end_date >= start }

Entries(rooms, r) == Cardinality({ i \in DOMAIN rooms : rooms[i] = r })

\* BookedCount with the check-out date counted as a night of the stay.
BookedCount_Inclusive(bs, r, day) ==
    SumOver([k \in bs |-> IF k.check_in <= day /\ day <= k.check_out
                          THEN Copies(bookings, k) * Entries(k.rooms, r) ELSE 0], bs)

BookedCount(bs, r, day) ==
    SumOver([k \in bs |-> IF k.check_in <= day /\ day < k.check_out
                          THEN Copies(bookings, k) * Entries(k.rooms, r) ELSE 0], bs)

\* BlockedCount with the end date of a block left out.
BlockedCount_ExclusiveEnd(ks, r, day) ==
    SumOver([k \in ks |-> IF k.room_type_id = r /\ k.start_date <= day /\ day < k.end_date
                          THEN Copies(room_blocks, k) * k.blocked_count ELSE 0], ks)

BlockedCount(ks, r, day) ==
    SumOver([k \in ks |-> IF k.room_type_id = r /\ k.start_date <= day /\ day <= k.end_date
                          THEN Copies(room_blocks, k) * k.blocked_count ELSE 0], ks)

Max(x, y) == IF x >= y THEN x ELSE y

\* AvailableRooms without the floor at zero.
AvailableRooms_NoFloor(total, booked, blocked) == total - booked - blocked

AvailableRooms(total, booked, blocked) == Max(0, total - booked - blocked)

\* One element of room_data["availability"].
DayEntry(room, day, bs, ks, rs) ==
    LET booked_count == BookedCount(bs, room.id, day)
        blocked_count == BlockedCount(ks, room.id, day)
        available == AvailableRooms(room.total_inventory, booked_count, blocked_count)
        is_blocked == blocked_count >= room.total_inventory
    IN [totalRooms |-> room.total_inventory,
        bookedRooms |-> booked_count,
        blockedRooms |-> blocked_count,
        availableRooms |-> available,
        isBlocked |-> (is_blocked \/ available = 0),
        price |-> PriceMapGet(rs, room.id, day, room.base_price)]

\* The body of the response when the rate rows arrive in the order rs: one
\* entry per room type of the hotel, one day entry per day of the window.
AvailabilityData(h, start, end, rs) ==
    LET bs == OverlappingBookings(h, start, end)
        ks == OverlappingBlocks(h, start, end)
        rooms == { room \in room_types : room.hotel_id = h }
    IN [id \in { room.id : room \in rooms } |->
          LET room == CHOOSE x \in rooms : x.id = id
          IN [day \in start..end |-> DayEntry(room, day, bs, ks, rs)]]

GetAvailability(h, start, end) ==
    /\ \E rs \in Orderings(DailyRates(room_rates, h, start, end)) :
          resp' = [op |-> "get_availability", hotel_id |-> h, start_date |-> start,
                   end_date |-> end, status |-> 200,
                   body |-> AvailabilityData(h, start, end, rs)]
    /\ UNCHANGED <<room_types, room_seq, room_rates, bookings, room_blocks, rate_plans, promo_codes, session>>

\* --------------------------------------------------------------- RatePlan
RatePlan(id, h, adj, active) ==
    [id |-> id, hotel_id |-> h, price_adjustment |-> adj, is_active |-> active]

\* A rate plan stored by the rates API under a fresh id.
CreateRatePlan(id, h, adj, active) ==
    /\ ~\E pl \in rate_plans : pl.id = id
    /\ rate_plans' = rate_plans \cup {RatePlan(id, h, adj, active)}
    /\ resp' = [op |-> "create_rate_plan", status |-> 201]
    /\ UNCHANGED <<room_types, room_seq, room_rates, bookings, room_blocks, promo_codes, session>>

\* -------------------------------------------------------------- PromoCode
\* start_date and end_date 0 and max_usage -1 stand for None.
PromoCode(h, code, type, value) ==
    [hotel_id |-> h, code |-> code, discount_type |-> type, discount_value |-> value,
     start_date |-> 0, end_date |-> 0, max_usage |-> 0 - 1, current_usage |-> 0,
     is_active |-> TRUE]

\* A PromoCode body with a validity window, a usage cap and the active flag.
PromoCodeWith(h, code, type, value, start, end, max_usage, usage, active) ==
    [PromoCode(h, code, type, value) EXCEPT
        !.start_date = start, !.end_date = end, !.max_usage = max_usage,
        !.current_usage = usage, !.is_active = active]

\* create_promo: refused when the hotel already has a promo with the code.
CreatePromo(promo) ==
    /\ UNCHANGED <<room_types, room_seq, room_rates, bookings, room_blocks, rate_plans, session>>
    /\ IF \E x \in Rows(promo_codes) : x.code = promo.code /\ x.hotel_id = promo.hotel_id
       THEN /\ resp' = [op |-> "create_promo", status |-> 400]
            /\ UNCHANGED promo_codes
       ELSE /\ promo_codes' = promo_codes (+) SetToBag({promo})
            /\ resp' = [op |-> "create_promo", status |-> 200]

\* str.upper() on the codes in use.
Upper(code) == IF code = "save" THEN "SAVE" ELSE code

\* The agent's create_promo_code tool: the hotel's promos are searched for
\* the code as given, and the promo is stored with the code in upper case,
\* as a percentage.
LogicCreatePromoCode(h, code, discount_percent) ==
    /\ UNCHANGED <<room_types, room_seq, room_rates, bookings, room_blocks, rate_plans, session>>
    /\ LET req == [op |-> "create_promo_code", hotel_id |-> h, code |-> code]
       IN IF \E x \in Rows(promo_codes) : x.hotel_id = h /\ x.code = code
          THEN /\ resp' = req @@ [message |-> "already exists"]
               /\ UNCHANGED promo_codes
          ELSE /\ promo_codes' = promo_codes
                    (+) SetToBag({PromoCode(h, Upper(code), "percentage", discount_percent)})
               /\ resp' = req @@ [message |-> "SUCCESS"]

\* The discount of a promo on an amount: a percentage of it, or the fixed
\* value.
Discount(promo, amount) ==
    IF promo.discount_type = "percentage"
    THEN (amount * promo.discount_value) \div 100
    ELSE promo.discount_value

Min(x, y) == IF x <= y THEN x ELSE y

\* The checks of validate_promo on a promo found: the dates, then the usage.
PromoValid(promo, today) ==
    /\ ~(promo.start_date # 0 /\ today < promo.start_date)
    /\ ~(promo.end_date # 0 /\ today > promo.end_date)
    /\ ~(promo.max_usage # 0 - 1 /\ promo.current_usage >= promo.max_usage)

\* validate_promo on the day today: the first active promo of the hotel with
\* the code; the discount is capped at the booking amount.
ValidatePromo(code, h, booking_amount, today) ==
    /\ UNCHANGED <<room_types, room_seq, room_rates, bookings, room_blocks,
                   rate_plans, promo_codes, session>>
    /\ LET found == { x \in Rows(promo_codes) :
                        x.code = code /\ x.hotel_id = h /\ x.is_active }
           invalid == [op |-> "validate_promo", valid |-> FALSE, discount |-> 0]
       IN IF found = {}
          THEN resp' = invalid
          ELSE \E promo \in found :
                 IF ~PromoValid(promo, today)
                 THEN resp' = invalid
                 ELSE LET discount == Min(Discount(promo, booking_amount), booking_amount)
                      IN resp' = [op |-> "validate_promo", valid |-> TRUE,
                                  code |-> promo.code, amount |-> booking_amount,
                                  discount |-> discount,
                                  final_amount |-> booking_amount - discount]

\* ---------------------------------------------------- search_public_rooms
\* The expansion of the daily rates calls addDays before the def statement
\* that binds it: the first step of the loop over a row with
\* date_from <= date_to raises UnboundLocalError.
DailyRatesRaise(h, check_in, check_out) ==
    \E x \in DailyRates(room_rates, h, check_in, check_out) : x.date_from <= x.date_to

ExistingBookings(h, check_in, check_out) ==
    { k \in Rows(bookings) :
        /\ k.hotel_id = h
        /\ k.status # "cancelled"
        /\ k.check_in < check_out
        /\ k.check_out > check_in }

ExistingBlocks(h, check_in, check_out) ==
    { k \in Rows(room_blocks) :
        /\ k.hotel_id = h
        /\ k.start_date <= check_out
        /\ k.end_date >= check_in }

\* available = rt.total_inventory - (booked_count + blocked_count), both
\* counted over the whole stay.
SearchAvailable(rt, h, check_in, check_out) ==
    LET bs == ExistingBookings(h, check_in, check_out)
        ks == ExistingBlocks(h, check_in, check_out)
        booked_count == SumOver([k \in bs |-> Copies(bookings, k) * Entries(k.rooms, rt.id)], bs)
        blocked_count == SumOver([k \in ks |-> IF k.room_type_id = rt.id
                                               THEN Copies(room_blocks, k) * k.blocked_count
                                               ELSE 0], ks)
    IN rt.total_inventory - (booked_count + blocked_count)

Nights(check_in, check_out) ==
    IF check_out - check_in < 1 THEN 1 ELSE check_out - check_in

\* ExtraPersonRate without the fallback.
ExtraPersonRate_NoFallback(rt) == rt.extra_person_price

ExtraPersonRate(rt) ==
    IF rt.extra_person_price # 0 THEN rt.extra_person_price ELSE 1000

\* FindPromo that ignores the code sent.
FindPromo_AnyCode(h, promo_code) ==
    IF promo_code = NoPromo THEN {}
    ELSE { x \in Rows(promo_codes) : x.hotel_id = h /\ x.is_active }

\* Step 4b of the search: the active promos of the hotel with the code.
FindPromo(h, promo_code) ==
    IF promo_code = NoPromo THEN {}
    ELSE { x \in Rows(promo_codes) :
             x.hotel_id = h /\ x.code = promo_code /\ x.is_active }

NightlyRate(rt, plan, rs, day, guests) ==
    LET nightly_base == PriceMapGet(rs, rt.id, day, rt.base_price)
        extra_guests == Max(0, guests - rt.base_occupancy)
    IN nightly_base + plan.price_adjustment
       + (IF extra_guests > 0 THEN extra_guests * ExtraPersonRate(rt) ELSE 0)

\* total_plan_price: the nightly rates of check_in .. check_out - 1.
TotalPlanPrice(rt, plan, rs, check_in, check_out, guests) ==
    LET nights == check_in..(check_out - 1)
    IN SumOver([d \in nights |-> NightlyRate(rt, plan, rs, d, guests)], nights)

\* One RateOption; promo is a set holding the promo found, if any.
RateOption(rt, plan, rs, check_in, check_out, guests, promo) ==
    LET plan_total == TotalPlanPrice(rt, plan, rs, check_in, check_out, guests)
        discount == IF promo = {} THEN 0
                    ELSE Discount(CHOOSE x \in promo : TRUE, plan_total)
    IN [price_per_night |-> plan_total \div Nights(check_in, check_out),
        total_price |-> IF discount > 0 THEN plan_total - discount ELSE plan_total,
        savings |-> IF discount > 0 THEN discount ELSE 0]

\* RateOptions with an option at the base price when no plan is active.
RateOptions_BaseFallback(rt, plans, rs, check_in, check_out, guests, promo) ==
    [pid \in (IF plans = {} THEN {"standard"} ELSE { pl.id : pl \in plans }) |->
       RateOption(rt, IF plans = {} THEN RatePlan("standard", rt.hotel_id, 0, TRUE)
                      ELSE CHOOSE pl \in plans : pl.id = pid,
                  rs, check_in, check_out, guests, promo)]

\* The rate options of a room type: one per active plan; none without plans.
RateOptions(rt, plans, rs, check_in, check_out, guests, promo) ==
    [pid \in { pl.id : pl \in plans } |->
       RateOption(rt, CHOOSE pl \in plans : pl.id = pid, rs, check_in, check_out,
                  guests, promo)]

RECURSIVE MinOf(_)
MinOf(S) ==
    LET x == CHOOSE y \in S : TRUE
    IN IF S = {x} THEN x ELSE Min(x, MinOf(S \ {x}))

\* SearchResults that keeps a room type with no unit left (available >= 0).
SearchResults_KeepSoldOut(h, check_in, check_out, guests, children, promo, rs) ==
    LET plans == { pl \in rate_plans : pl.hotel_id = h /\ pl.is_active }
        fits == { rt \in room_types :
                    /\ rt.hotel_id = h /\ rt.is_active
                    /\ rt.max_occupancy >= guests /\ rt.max_children >= children
                    /\ SearchAvailable(rt, h, check_in, check_out) >= 0
                    /\ DOMAIN RateOptions(rt, plans, rs, check_in, check_out,
                                          guests, promo) # {} }
    IN [id \in { rt.id : rt \in fits } |->
          LET rt == CHOOSE x \in fits : x.id = id
              rate_options == RateOptions(rt, plans, rs, check_in, check_out, guests, promo)
          IN [available_rooms |-> SearchAvailable(rt, h, check_in, check_out),
              price_starting_at |->
                  MinOf({ rate_options[pid].total_price : pid \in DOMAIN rate_options }),
              rate_options |-> rate_options]]

\* available_rooms_list for the promo found and the rate rows read in the
\* order rs.
SearchResults(h, check_in, check_out, guests, children, promo, rs) ==
    LET plans == { pl \in rate_plans : pl.hotel_id = h /\ pl.is_active }
        fits == { rt \in room_types :
                    /\ rt.hotel_id = h /\ rt.is_active
                    /\ rt.max_occupancy >= guests /\ rt.max_children >= children
                    /\ SearchAvailable(rt, h, check_in, check_out) > 0
                    /\ DOMAIN RateOptions(rt, plans, rs, check_in, check_out,
                                          guests, promo) # {} }
    IN [id \in { rt.id : rt \in fits } |->
          LET rt == CHOOSE x \in fits : x.id = id
              rate_options == RateOptions(rt, plans, rs, check_in, check_out, guests, promo)
          IN [available_rooms |-> SearchAvailable(rt, h, check_in, check_out),
              price_starting_at |->
                  MinOf({ rate_options[pid].total_price : pid \in DOMAIN rate_options }),
              rate_options |-> rate_options]]

\* The answers search_public_rooms can give to one request: the status and,
\* with 200, the room types returned.
SearchResponses(h, check_in, check_out, guests, children, promo_code) ==
    LET found == FindPromo(h, promo_code)
    IN IF ~\E rt \in room_types : rt.hotel_id = h /\ rt.is_active
       THEN { [status |-> 200, body |-> <<>>] }
       ELSE IF DailyRatesRaise(h, check_in, check_out)
       THEN { [status |-> 500] }
       ELSE IF SumOver([x \in found |-> Copies(promo_codes, x)], found) > 1
       THEN { [status |-> 500] }
       ELSE { [status |-> 200,
               body |-> SearchResults(h, check_in, check_out, guests, children, found, rs)] :
              rs \in Orderings(DailyRates(room_rates, h, check_in, check_out)) }

SearchPublicRooms(h, check_in, check_out, guests, children, promo_code) ==
    /\ UNCHANGED <<room_types, room_seq, room_rates, bookings, room_blocks,
                   rate_plans, promo_codes, session>>
    /\ LET req == [op |-> "search_public_rooms", hotel_id |-> h, check_in |-> check_in,
                   check_out |-> check_out, guests |-> guests, children |-> children,
                   promo_code |-> promo_code]
       IN \E out \in SearchResponses(h, check_in, check_out, guests, children, promo_code) :
             resp' = req @@ out

\* ---------------------------------------------------- _send_webhook_event
NoSecret == "none"
NoStatus == 0 - 1

\* json.dumps(payload): the text sent; it raises TypeError on a payload
\* that holds a value JSON cannot express.
JsonDumps(payload) == <<"json", payload.event>>

\* hmac.new(key, msg, hashlib.sha256).hexdigest()
HmacSha256(key, msg) == <<"hmac-sha256", key, msg>>

\* The headers of the request: the signature only if secret is truthy.
WebhookHeaders(secret, data) ==
    { <<"Content-Type", "application/json">> }
    \cup (IF secret # NoSecret /\ secret # ""
          THEN { <<"X-Hub-Signature-256", <<"sha256=", HmacSha256(secret, data)>>>> }
          ELSE {})

\* IsSuccess that also takes a redirect for a success.
IsSuccess_Below400(status_code) == 200 <= status_code /\ status_code <= 399

\* httpx.Response.is_success
IsSuccess(status_code) == 200 <= status_code /\ status_code <= 299

\* _send_webhook_event for a payload, a url httpx accepts or rejects with
\* InvalidURL, and what the network does with the request: a response with
\* a status code or an httpx.RequestError.
SendWebhookEvent(url, payload, secret, net) ==
    /\ UNCHANGED <<room_types, room_seq, room_rates, bookings, room_blocks,
                   rate_plans, promo_codes, session>>
    /\ LET req == [op |-> "send_webhook_event", url |-> url, payload |-> payload,
                   secret |-> secret, net |-> net]
           data == JsonDumps(payload)
           request == [url |-> url.text, content |-> data,
                       headers |-> WebhookHeaders(secret, data)]
       IN IF ~payload.serializable
          THEN resp' = req @@ [requests |-> {},
                               result |-> <<FALSE, <<"Unexpected error", "TypeError">>, NoStatus>>]
          ELSE IF ~url.valid
          THEN resp' = req @@ [requests |-> {},
                               result |-> <<FALSE, <<"Unexpected error", "InvalidURL">>, NoStatus>>]
          ELSE IF net.kind = "request_error"
          THEN resp' = req @@ [requests |-> {request},
                               result |-> <<FALSE, <<"Connection error", net.error>>, NoStatus>>]
          ELSE IF IsSuccess(net.status_code)
          THEN resp' = req @@ [requests |-> {request},
                               result |-> <<TRUE, <<"Webhook sent successfully">>,
                                            net.status_code>>]
          ELSE resp' = req @@ [requests |-> {request},
                               result |-> <<FALSE, <<"Webhook failed with status",
                                                     net.status_code>>,
                                            net.status_code>>]

\* ------------------------------------------------------------------- Init
Init ==
    /\ room_types = {}
    /\ room_seq = 0
    /\ room_rates = EmptyBag
    /\ bookings = EmptyBag
    /\ room_blocks = EmptyBag
    /\ rate_plans = {}
    /\ promo_codes = EmptyBag
    /\ resp = [op |-> "none"]
    /\ session = [pc |-> "idle"]

\* --------------------------------------------------- the rate store alone
RoomCfgRates == RoomCfg(1)

\* The well-formed requests: date_from <= date_to and a price >= 0.
ValidRateInputs ==
    { <<a, b, p>> \in Days \X Days \X Prices : a <= b }

\* Requests with inverted dates or a negative price.
InvalidRateInputs ==
    { <<a, b, p>> \in Days \X Days \X {100} : a > b } \cup { <<1, MaxDay, NegPrice>> }

\* Well-formed requests only, from the empty store.
NextRates ==
    \/ CreateRoom("h1", RoomCfgRates)
    \/ \E in \in ValidRateInputs : UpdateDailyRates("h1", 1, in[1], in[2], in[3])

SpecRates == Init /\ [][NextRates]_vars

\* Every request the handler accepts, while the table holds fewer than
\* MaxRates rows.
NextRatesAny ==
    \/ CreateRoom("h1", RoomCfgRates)
    \/ \E in \in ValidRateInputs \cup InvalidRateInputs :
          /\ NumRows(room_rates) < MaxRates
          /\ UpdateDailyRates("h1", 1, in[1], in[2], in[3])

SpecRatesAny == Init /\ [][NextRatesAny]_vars

\* The handler step by step, one session at a time: the well-formed
\* requests at one price, one at another price and one with inverted dates.
TxnInputs ==
    { x \in ValidRateInputs : x[3] = 100 }
    \cup { <<2, MaxDay - 1, 200>>, <<MaxDay - 1, 2, 200>> }

NextTxn ==
    \/ \E in \in TxnInputs :
          /\ NumRows(room_rates) < MaxRates
          /\ BeginUpdate("h1", 1, in[1], in[2], in[3])
    \/ \E x \in Rows(room_rates) : ProcessExisting(x)
    \/ InsertNewRate
    \/ CommitUpdate
    \/ CrashUpdate

SpecTxn == Init /\ [][NextTxn]_vars

\* Two requests in flight: the store is filled by single requests, then
\* one request runs step by step while others commit beside it.
ConcInputs == { x \in ValidRateInputs : x[1] + 1 >= x[2] /\ x[3] = 100 }

NextConc ==
    \/ \E in \in ConcInputs :
          /\ session.pc = "idle"
          /\ room_rates = EmptyBag
          /\ UpdateDailyRates("h1", 1, in[1], in[2], in[3])
    \/ \E in \in ConcInputs :
          /\ NumRows(room_rates) < MaxRates - 1
          /\ BeginUpdate("h1", 1, in[1], in[2], in[3])
    \/ \E x \in Rows(room_rates) : ProcessExisting(x)
    \/ InsertNewRate
    \/ \E in \in ConcInputs :
          /\ NumRows(room_rates) < MaxRates - 1
          /\ ConcurrentUpdate("h1", 1, in[1], in[2], 200)
    \/ CommitUpdate

SpecConc == Init /\ [][NextConc]_vars

\* The rate store shared by two hotels, two room types and a rate plan: the
\* well-formed requests for room type 1 of h1, and one request each for the
\* same room type id under h2, for room type 2 under h1 and for a plan.
NextTenants ==
    \/ CreateRoom("h1", RoomCfgRates)
    \/ \E in \in { x \in ValidRateInputs : x[3] = 100 } :
          UpdateDailyRates("h1", 1, in[1], in[2], in[3])
    \/ UpdateDailyRates("h2", 1, 2, MaxDay - 1, 200)
    \/ UpdateDailyRates("h1", 2, 2, MaxDay - 1, 200)
    \/ SetPlanRate("h1", 1, "p1", 2, MaxDay - 1, 200)

SpecTenants == Init /\ [][NextTenants]_vars

\* ------------------------------------------------ availability aggregator
RoomCfgAvail == RoomCfg(2)

\* Stays of one or two nights.
StayInputs == { <<ci, co>> \in Days \X Days : ci < co /\ co <= ci + 2 }

\* The windows asked for: the single days 2 and 3 and the whole calendar.
Windows == { <<d, d>> : d \in 2..3 } \cup { <<1, MaxDay>> }

\* The stays booked: two nights from day 1, and the nights of days 2 and 3.
AvailStays == { <<1, 3>>, <<2, 3>>, <<3, 4>> }

NextAvail ==
    \/ room_seq = 0 /\ CreateRoom("h1", RoomCfgAvail)
    \/ room_seq > 0 /\ CreateRoom("h2", RoomCfgAvail)
    \/ \E st \in AvailStays :
          /\ NumRows(bookings) < MaxBookings
          /\ CreatePublicBooking(<<1>>, st[1], st[2], NoPromo)
    \/ /\ NumRows(bookings) < MaxBookings
       /\ CreatePublicBooking(<<1, 1>>, 2, 3, NoPromo)
    \/ /\ NumRows(bookings) < MaxBookings
       /\ CreatePublicBooking(<<2, 1>>, 1, MaxDay, NoPromo)
    \/ \E h \in Hotels, k \in Rows(bookings) : CancelBooking(h, k)
    \/ /\ NumRows(room_blocks) < MaxBlocks
       /\ \E c \in 0..2 : CreateBlock("h1", 1, 2, 3, c)
    \/ \E w \in Windows : GetAvailability("h1", w[1], w[2])

SpecAvail == Init /\ [][NextAvail]_vars

\* -------------------------------------------------------- booking lifecycle
NextLife ==
    \/ room_seq = 0 /\ CreateRoom("h1", RoomCfgAvail)
    \/ \E st \in StayInputs :
          /\ NumRows(bookings) < MaxBookings
          /\ CreatePublicBooking(<<1>>, st[1], st[2], NoPromo)
    \/ \E h \in Hotels, k \in Rows(bookings) : AdvanceBooking(h, k)
    \/ \E h \in Hotels, k \in Rows(bookings) : CancelBooking(h, k)

SpecLife == Init /\ [][NextLife]_vars

\* ------------------------------------------------------ public room search
PlanInputs ==
    { [id |-> "p1", adj |-> 0, active |-> TRUE],
      [id |-> "p2", adj |-> 100, active |-> FALSE] }

\* The stays searched: one or two nights, and one with check_out = check_in.
SearchStays == StayInputs \cup { <<2, 2>> }

NextSearch ==
    \/ room_seq = 0 /\ CreateRoom("h1", RoomCfg(2))
    \/ \E pl \in PlanInputs : CreateRatePlan(pl.id, "h1", pl.adj, pl.active)
    \/ \E st \in StayInputs :
          /\ NumRows(bookings) < MaxBookings
          /\ CreatePublicBooking(<<1>>, st[1], st[2], NoPromo)
    \/ /\ NumRows(room_blocks) < MaxBlocks
       /\ CreateBlock("h1", 1, 3, 3, 1)
    \/ UpdateDailyRates("h1", 1, 2, 2, 200)
    \/ CreatePromo(PromoCode("h1", "SAVE", "fixed_amount", 100))
    \/ \E st \in SearchStays, g \in 2..3, code \in {NoPromo, "SAVE"} :
          SearchPublicRooms("h1", st[1], st[2], g, 0, code)

SpecSearch == Init /\ [][NextSearch]_vars

\* ------------------------------------------------------------ promo codes
PromoValues == {0, 50, 100, 150, 1000}

Amounts == {0, 100, 1000}

\* Two active plans with different adjustments and an inactive one.
PromoPlans ==
    { [id |-> "p1", adj |-> 0, active |-> TRUE],
      [id |-> "p2", adj |-> 100, active |-> TRUE],
      [id |-> "p3", adj |-> 0, active |-> FALSE] }

NextPromo ==
    \/ room_seq = 0 /\ CreateRoom("h1", RoomCfg(2))
    \/ \E pl \in PromoPlans : CreateRatePlan(pl.id, "h1", pl.adj, pl.active)
    \/ /\ NumRows(bookings) < MaxBookings
       /\ CreatePublicBooking(<<1>>, 1, 2, NoPromo)
    \/ \E type \in {"percentage", "fixed_amount"}, value \in PromoValues :
          CreatePromo(PromoCode("h1", "SAVE", type, value))
    \/ \E amount \in Amounts : ValidatePromo("SAVE", "h1", amount, 1)
    \/ \E st \in StayInputs, g \in 2..3 :
          SearchPublicRooms("h1", st[1], st[2], g, 0, "SAVE")

SpecPromo == Init /\ [][NextPromo]_vars

\* Promos created through the API and through the agent, with the code
\* written in lower and in upper case.
PromoCodesSent == {"save", "SAVE"}

NextPromoNames ==
    \/ room_seq = 0 /\ CreateRoom("h1", RoomCfg(2))
    \/ CreateRatePlan("p1", "h1", 0, TRUE)
    \/ \E h \in Hotels, code \in PromoCodesSent :
          /\ NumRows(promo_codes) < MaxRates
          /\ CreatePromo(PromoCode(h, code, "fixed_amount", 100))
    \/ \E h \in Hotels, code \in PromoCodesSent :
          /\ NumRows(promo_codes) < MaxRates
          /\ LogicCreatePromoCode(h, code, 50)
    \/ \E code \in PromoCodesSent : SearchPublicRooms("h1", 1, 2, 2, 0, code)

SpecPromoNames == Init /\ [][NextPromoNames]_vars

\* A promo with a usage cap of one, and bookings made with and without its
\* code.
CappedPromo == PromoCodeWith("h1", "SAVE", "fixed_amount", 100, 0, 0, 1, 0, TRUE)

NextUsage ==
    \/ room_seq = 0 /\ CreateRoom("h1", RoomCfg(2))
    \/ CreatePromo(CappedPromo)
    \/ \E st \in StayInputs, code \in {NoPromo, "SAVE"} :
          /\ NumRows(bookings) < MaxBookings
          /\ CreatePublicBooking(<<1>>, st[1], st[2], code)
    \/ \E amount \in Amounts : ValidatePromo("SAVE", "h1", amount, 1)

SpecUsage == Init /\ [][NextUsage]_vars

\* ------------------------------------------------- promo codes in a quote
\* The promos created: one of hotel h1 under the code SAVE (always valid,
\* valid on days 2..3 only, used up, or inactive) and one of hotel h2.
QuotePromos ==
    { PromoCode("h1", "SAVE", "fixed_amount", 100),
      PromoCodeWith("h1", "SAVE", "percentage", 50, 2, 3, 0 - 1, 0, TRUE),
      PromoCodeWith("h1", "SAVE", "fixed_amount", 100, 0, 0, 1, 1, TRUE),
      PromoCodeWith("h1", "SAVE", "fixed_amount", 100, 0, 0, 0 - 1, 0, FALSE),
      PromoCode("h2", "OTHER", "fixed_amount", 100) }

QuoteCodes == {NoPromo, "SAVE", "OTHER", "NOPE"}

NextQuote ==
    \/ room_seq = 0 /\ CreateRoom("h1", RoomCfg(2))
    \/ room_seq = 1 /\ CreateRoom("h1", RoomCfgNoExtra(2))
    \/ CreateRatePlan("p1", "h1", 0, TRUE)
    \/ \E promo \in QuotePromos : CreatePromo(promo)
    \/ UpdateDailyRates("h1", 1, MaxDay, MaxDay, 200)
    \/ \E today \in Days : ValidatePromo("SAVE", "h1", 300, today)
    \/ \E st \in StayInputs, g \in 2..3, code \in QuoteCodes :
          SearchPublicRooms("h1", st[1], st[2], g, 0, code)

SpecQuote == Init /\ [][NextQuote]_vars

\* ------------------------------------------------------- webhook delivery
WebhookUrls ==
    { [text |-> "https://example.com/webhook", valid |-> TRUE],
      [text |-> "https://example.com:port/", valid |-> FALSE] }

WebhookPayloads ==
    { [event |-> "webhook.test", serializable |-> TRUE],
      [event |-> "booking.created", serializable |-> TRUE],
      [event |-> "object", serializable |-> FALSE] }

Secrets == {NoSecret, "", "s1", "s2"}

NetOutcomes ==
    { [kind |-> "response", status_code |-> c, error |-> ""] :
        c \in {200, 204, 301, 404, 500} }
    \cup { [kind |-> "request_error", status_code |-> NoStatus, error |-> e] :
             e \in {"ConnectError", "ReadTimeout"} }

NextWebhook ==
    \E url \in WebhookUrls, payload \in WebhookPayloads, secret \in Secrets,
       net \in NetOutcomes : SendWebhookEvent(url, payload, secret, net)

SpecWebhook == Init /\ [][NextWebhook]_vars

\* ------------------------------------------------- two hotels, every writer
\* The users of the agent and the hotel each one belongs to.
Users == {"u1", "u2"}

HotelOf(user_id) == IF user_id = "u1" THEN "h1" ELSE "h2"

\* Room type 1 is h1's and room type 2 is h2's; the users of both hotels
\* send either id.
NextIsolation ==
    \/ room_seq = 0 /\ CreateRoom("h1", RoomCfgAvail)
    \/ room_seq = 1 /\ CreateRoom("h2", RoomCfgAvail)
    \/ CreateRatePlan("p2", "h2", 0, TRUE)
    \/ \E h \in Hotels, r \in 1..2 :
          /\ NumRows(room_rates) < MaxRates - 1
          /\ UpdateDailyRates(h, r, 2, 3, 200)
    \/ \E h \in Hotels, r \in 1..2 :
          /\ NumRows(room_blocks) <= MaxBlocks
          /\ CreateBlock(h, r, 2, 3, 1)
    \/ \E h \in Hotels, k \in Rows(room_blocks) : DeleteBlock(h, k)
    \/ \E h \in Hotels, r \in 1..2 : DeleteRoom(h, r)
    \/ /\ NumRows(bookings) < MaxBookings - 1
       /\ CreatePublicBooking(<<2>>, 2, 3, NoPromo)
    \/ \E h \in Hotels, k \in Rows(bookings) : CancelBooking(h, k)
    \/ \E u \in Users, r \in 1..2, ok \in BOOLEAN : BlockRoomDates(u, {r}, ok, 2, 3)
    \/ GetAvailability("h2", 1, MaxDay)

SpecIsolation == Init /\ [][NextIsolation]_vars

\* ------------------------------------------------------- the whole system
Next ==
    \/ NextRates
    \/ NextRatesAny
    \/ NextTenants
    \/ NextTxn
    \/ NextAvail
    \/ NextLife
    \/ NextSearch
    \/ NextPromo
    \/ NextQuote
    \/ NextWebhook
    \/ NextIsolation
    \/ NextConc
    \/ NextPromoNames
    \/ NextUsage

Spec == Init /\ [][Next]_vars

\* ------------------------------------------------------- price looked up
\* The prices get_availability may report for room type r of hotel h on day
\* d, over the orders in which the rate rows may be read (the order of the
\* rows that write the key (r, d) of price_map decides); empty when the
\* hotel has no such room type.
LookupPrices(table, rooms, h, r, d) ==
    { PriceMapGet(rs, r, d, room.base_price) :
        rs \in Orderings({ x \in DailyRates(table, h, 1, MaxDay) :
                             /\ x.room_type_id = r
                             /\ x.date_from <= d /\ d <= x.date_to }),
        room \in { x \in rooms : x.hotel_id = h /\ x.id = r } }

IsBaseOf(x, h, r) ==
    x.hotel_id = h /\ x.room_type_id = r /\ x.rate_plan_id = NoPlan

\* The table without the base-price rows of room type r of hotel h.
OtherRates(table, h, r) ==
    [x \in { y \in Rows(table) : ~IsBaseOf(y, h, r) } |-> Copies(table, x)]

\* The (date_from, date_to, price) of the base-price rows of one room type.
BaseRanges(table, h, r) ==
    [t \in { <<x.date_from, x.date_to, x.price>> :
               x \in { y \in Rows(table) : IsBaseOf(y, h, r) } }
       |-> Copies(table, RoomRate(h, r, NoPlan, t[1], t[2], t[3]))]

ShareDay(x, y) ==
    \E d \in Days : /\ x.date_from <= d /\ d <= x.date_to
                     /\ y.date_from <= d /\ d <= y.date_to

IsRateUpdate(rsp) == rsp.op = "update_daily_rates"

\* C1: from the empty store, after any sequence of update_daily_rates calls
\* with start_date <= end_date, no two stored base-price rows of one room
\* type of one hotel contain a common day.
C1_NonOverlap ==
    \A x, y \in Rows(room_rates) :
        ( /\ x.rate_plan_id = NoPlan /\ y.rate_plan_id = NoPlan
          /\ x.hotel_id = y.hotel_id /\ x.room_type_id = y.room_type_id
          /\ (x # y \/ Copies(room_rates, x) > 1) )
        => ~ShareDay(x, y)

\* A store of three ranges left by a call that cut an older range in two.
C1_Witness ==
    /\ IsRateUpdate(resp)
    /\ NumRows(room_rates) >= 3
    /\ \E x, y \in Rows(room_rates) :
          /\ x.date_to = resp.start_date - 1
          /\ y.date_from = resp.end_date + 1
          /\ x.price = y.price /\ x.price # resp.price

\* C2: right after update_daily_rates(r, a, b, p) with a <= b answers 200,
\* every price get_availability may report for r on a day of [a, b] is p,
\* whatever rows the store held before, overlapping ones included.
C2_Authority ==
    (IsRateUpdate(resp) /\ resp.status = 200 /\ resp.start_date <= resp.end_date)
    => \A d \in resp.start_date..resp.end_date :
          \A q \in LookupPrices(room_rates, room_types, resp.hotel_id,
                                 resp.room_type_id, d) : q = resp.price

\* The call wrote over days that older rows covered: rows remain on both
\* sides of the new range, and the room type exists, so a price is reported.
C2_Witness ==
    /\ IsRateUpdate(resp) /\ resp.start_date < resp.end_date
    /\ LookupPrices(room_rates, room_types, resp.hotel_id, resp.room_type_id,
                    resp.start_date) = {resp.price}
    /\ \E x, y \in Rows(room_rates) :
          /\ x.date_from <= x.date_to /\ x.date_to = resp.start_date - 1
          /\ y.date_from <= y.date_to /\ y.date_from = resp.end_date + 1
          /\ x.price # resp.price

\* C3: update_daily_rates(r, a, b, p) with a <= b leaves the price looked up
\* for r on every day outside [a, b] as it was, and leaves every row of
\* another room type, of a rate plan or of another hotel untouched.
C3_Frame ==
    [][ (IsRateUpdate(resp') /\ resp'.start_date <= resp'.end_date)
        => /\ \A d \in Days \ (resp'.start_date..resp'.end_date) :
                 LookupPrices(room_rates', room_types', resp'.hotel_id, resp'.room_type_id, d)
                 = LookupPrices(room_rates, room_types, resp'.hotel_id, resp'.room_type_id, d)
           /\ OtherRates(room_rates', resp'.hotel_id, resp'.room_type_id)
              = OtherRates(room_rates, resp'.hotel_id, resp'.room_type_id) ]_vars

\* A call for room type 1 of h1 made while rows of the other hotel, of the
\* other room type and of a plan cover days of the new range, and while an
\* older row of the room type itself reaches outside the new range.
C3_Witness ==
    /\ IsRateUpdate(resp) /\ resp.hotel_id = "h1" /\ resp.room_type_id = 1
    /\ resp.start_date <= 2 /\ 2 <= resp.end_date
    /\ room_types # {}
    /\ \E x \in Rows(room_rates) : IsBaseOf(x, "h2", 1)
    /\ \E x \in Rows(room_rates) : IsBaseOf(x, "h1", 2)
    /\ \E x \in Rows(room_rates) : x.rate_plan_id = "p1"
    /\ \E x \in Rows(room_rates) :
          IsBaseOf(x, "h1", 1) /\ x.date_to = resp.start_date - 1

\* C4: when the only stored base-price row [f, t] = q of the room type
\* strictly encloses [a, b], update_daily_rates(a, b, p) leaves exactly
\* [f, a-1] = q, [a, b] = p and [b+1, t] = q.
C4_Split ==
    [][ \A f, t \in Days, q \in Prices :
          ( /\ IsRateUpdate(resp')
            /\ BaseRanges(room_rates, resp'.hotel_id, resp'.room_type_id)
               = SetToBag({<<f, t, q>>})
            /\ f < resp'.start_date /\ resp'.end_date < t
            /\ resp'.start_date <= resp'.end_date )
          => BaseRanges(room_rates', resp'.hotel_id, resp'.room_type_id)
             = SetToBag({ <<f, resp'.start_date - 1, q>>,
                          <<resp'.start_date, resp'.end_date, resp'.price>>,
                          <<resp'.end_date + 1, t, q>> }) ]_vars

\* [1, MaxDay] = 100 then [2, 3] = 200.
C4_Witness ==
    /\ IsRateUpdate(resp) /\ resp.start_date = 2 /\ resp.end_date = 3 /\ resp.price = 200
    /\ BaseRanges(room_rates, "h1", 1)
       = SetToBag({ <<1, 1, 100>>, <<2, 3, 200>>, <<4, MaxDay, 100>> })

\* C5: an update_daily_rates call with start_date > end_date or a negative
\* price is answered with an error and leaves the stored rows as they were.
C5_RejectInvalid ==
    [][ ( /\ IsRateUpdate(resp')
          /\ (resp'.start_date > resp'.end_date \/ resp'.price < 0) )
        => (resp'.status >= 400 /\ room_rates' = room_rates) ]_vars

IsAvailability(rsp) == rsp.op = "get_availability"

\* C7: in every get_availability response, bookedRooms of a room type on a
\* day d of the window is the number of room-selection entries naming the
\* room type in the hotel's non-cancelled bookings with
\* check_in <= d < check_out; the check-out date itself never counts.
C7_ExclusiveCheckout ==
    IsAvailability(resp) =>
      \A id \in DOMAIN resp.body : \A d \in resp.start_date..resp.end_date :
        LET occ == { k \in Rows(bookings) :
                       /\ k.hotel_id = resp.hotel_id /\ k.status # "cancelled"
                       /\ k.check_in <= d /\ d < k.check_out }
        IN resp.body[id][d].bookedRooms
           = SumOver([k \in occ |-> Copies(bookings, k) * Entries(k.rooms, id)], occ)

\* A response for the check-out date of a booking that counts on its last
\* night: nothing is booked on that date.
C7_Witness ==
    /\ IsAvailability(resp) /\ resp.start_date = resp.end_date
    /\ \E k \in Rows(bookings) :
          /\ k.hotel_id = resp.hotel_id /\ k.status = "pending"
          /\ k.check_out = resp.start_date /\ k.check_in < k.check_out
          /\ k.rooms[1] \in DOMAIN resp.body
          /\ resp.body[k.rooms[1]][resp.start_date].bookedRooms = 0

\* C8: every availableRooms of a get_availability response equals
\* max(0, total_inventory - booked(d) - blocked(d)), also when the bookings
\* and blocks exceed the inventory, and is never negative.
C8_AvailabilityFloor ==
    IsAvailability(resp) =>
      \A id \in DOMAIN resp.body : \A d \in resp.start_date..resp.end_date :
        LET room == CHOOSE rt \in room_types : rt.id = id
            occ == { k \in Rows(bookings) :
                       /\ k.hotel_id = resp.hotel_id /\ k.status # "cancelled"
                       /\ k.check_in <= d /\ d < k.check_out }
            blk == { k \in Rows(room_blocks) :
                       /\ k.hotel_id = resp.hotel_id /\ k.room_type_id = id
                       /\ k.start_date <= d /\ d <= k.end_date }
            left == room.total_inventory
                    - SumOver([k \in occ |-> Copies(bookings, k) * Entries(k.rooms, id)], occ)
                    - SumOver([k \in blk |-> Copies(room_blocks, k) * k.blocked_count], blk)
        IN /\ resp.body[id][d].availableRooms = (IF left > 0 THEN left ELSE 0)
           /\ resp.body[id][d].availableRooms >= 0

\* An oversold day: more units booked and blocked than the inventory holds.
C8_Witness ==
    /\ IsAvailability(resp)
    /\ \E id \in DOMAIN resp.body : \E d \in resp.start_date..resp.end_date :
          /\ resp.body[id][d].blockedRooms >= 1
          /\ resp.body[id][d].bookedRooms + resp.body[id][d].blockedRooms
             > resp.body[id][d].totalRooms
          /\ resp.body[id][d].availableRooms = 0

IsSearch(rsp) == rsp.op = "search_public_rooms"

\* C6: for every stay [check_in, check_out) the search counts as available
\* units of a room type, and reports as available_rooms, the minimum over
\* the nights d of the stay of max(0, total_inventory - booked(d) -
\* blocked(d)): the room type is returned exactly when that minimum is at
\* least 1 (and a plan is active), with available_rooms equal to it.
C6_StayBinding ==
    ( /\ IsSearch(resp) /\ resp.status = 200 /\ resp.check_in < resp.check_out
      /\ \E pl \in rate_plans : pl.hotel_id = resp.hotel_id /\ pl.is_active )
    => \A rt \in { x \in room_types :
                     /\ x.hotel_id = resp.hotel_id /\ x.is_active
                     /\ x.max_occupancy >= resp.guests
                     /\ x.max_children >= resp.children } :
         LET booked(d) ==
               LET occ == { k \in Rows(bookings) :
                              /\ k.hotel_id = resp.hotel_id /\ k.status # "cancelled"
                              /\ k.check_in <= d /\ d < k.check_out }
               IN SumOver([k \in occ |-> Copies(bookings, k) * Entries(k.rooms, rt.id)], occ)
             blocked(d) ==
               LET blk == { k \in Rows(room_blocks) :
                              /\ k.hotel_id = resp.hotel_id /\ k.room_type_id = rt.id
                              /\ k.start_date <= d /\ d <= k.end_date }
               IN SumOver([k \in blk |-> Copies(room_blocks, k) * k.blocked_count], blk)
             units == MinOf({ Max(0, rt.total_inventory - booked(d) - blocked(d)) :
                              d \in resp.check_in..(resp.check_out - 1) })
         IN /\ (units >= 1) <=> (rt.id \in DOMAIN resp.body)
            /\ rt.id \in DOMAIN resp.body => resp.body[rt.id].available_rooms = units

C10_PromoFloor ==
    /\ (resp.op = "validate_promo" /\ resp.valid)
         => (resp.discount <= resp.amount /\ resp.final_amount >= 0)
    /\ (IsSearch(resp) /\ resp.status = 200)
         => \A id \in DOMAIN resp.body :
              \A pid \in DOMAIN resp.body[id].rate_options :
                LET opt == resp.body[id].rate_options[pid]
                IN opt.total_price >= 0 /\ opt.savings <= opt.total_price + opt.savings

IsCancel(rsp) == rsp.op = "cancel_booking"

\* What get_availability reports for one room type on one day.
DayReport(room, d) ==
    DayEntry(room, d, OverlappingBookings(room.hotel_id, d, d),
             OverlappingBlocks(room.hotel_id, d, d), <<>>)

Lifecycle ==
    { <<"pending", "confirmed">>, <<"confirmed", "checked_in">>,
      <<"checked_in", "checked_out">>, <<"pending", "cancelled">>,
      <<"confirmed", "cancelled">>, <<"checked_in", "cancelled">> }

\* C12: every step that changes the bookings either stores a new booking
\* with status pending or changes the status of one booking along
\* pending -> confirmed -> checked_in -> checked_out or to cancelled from a
\* status before checked_out; a checked-out or cancelled booking never
\* changes status, and "already cancelled" changes nothing.
C12_Lifecycle ==
    [][ /\ bookings' # bookings
          => \/ \E k \in Rows(bookings') :
                  k.status = "pending" /\ bookings' = bookings (+) SetToBag({k})
             \/ \E k \in Rows(bookings), st \in {"confirmed", "checked_in", "checked_out", "cancelled"} :
                  /\ <<k.status, st>> \in Lifecycle
                  /\ bookings' = (bookings (-) SetToBag({k}))
                                  (+) SetToBag({[k EXCEPT !.status = st]})
        /\ (IsCancel(resp') /\ resp'.message = "already cancelled")
          => bookings' = bookings ]_vars

\* C13: in every store the handler can reach, a second update_daily_rates
\* call with the arguments of a well-formed call that has just returned
\* leaves the (date_from, date_to, price) ranges of the room type as the
\* first call left them.
C13_Idempotent ==
    [][ (IsRateUpdate(resp') /\ resp'.start_date <= resp'.end_date /\ resp'.price >= 0)
        => /\ BaseRanges(RewriteRates(room_rates', resp'.hotel_id, resp'.room_type_id,
                                       resp'.start_date, resp'.end_date, resp'.price),
                          resp'.hotel_id, resp'.room_type_id)
              = BaseRanges(room_rates', resp'.hotel_id, resp'.room_type_id)
           /\ resp = resp'
                => BaseRanges(room_rates', resp'.hotel_id, resp'.room_type_id)
                   = BaseRanges(room_rates, resp'.hotel_id, resp'.room_type_id) ]_vars

\* A well-formed call has trimmed an older range of another price while the
\* store also holds a row with date_from > date_to.
C13_Witness ==
    /\ IsRateUpdate(resp) /\ resp.start_date <= resp.end_date /\ resp.price >= 0
    /\ Copies(room_rates, RoomRate(resp.hotel_id, resp.room_type_id, NoPlan,
                                   resp.start_date, resp.end_date, resp.price)) = 1
    /\ \E y, z \in Rows(room_rates) :
          /\ y.date_from = resp.end_date + 1 /\ y.date_from <= y.date_to
          /\ y.price # resp.price
          /\ z.date_from > z.date_to

NonOverlapping(table) ==
    \A x, y \in Rows(table) :
        ( /\ x.rate_plan_id = NoPlan /\ y.rate_plan_id = NoPlan
          /\ x.hotel_id = y.hotel_id /\ x.room_type_id = y.room_type_id
          /\ (x # y \/ Copies(table, x) > 1) )
        => ~ShareDay(x, y)

\* C14: the committed rows change only at the commit of an
\* update_daily_rates call, and then to the complete rewrite of the rows
\* committed before the call; every other step of the call, a crash
\* included, leaves them as they were, and no step other than the commit of
\* a call with start_date > end_date makes non-overlapping rows overlap.
C14_CrashAtomic ==
    [][ /\ room_rates' # room_rates
          => /\ IsRateUpdate(resp') /\ session.pc = "commit"
             /\ room_rates' = RewriteRates(room_rates, resp'.hotel_id, resp'.room_type_id,
                                           resp'.start_date, resp'.end_date, resp'.price)
        /\ resp'.op = "crash" => room_rates' = room_rates
        /\ ( /\ NonOverlapping(room_rates)
             /\ ~(IsRateUpdate(resp') /\ resp'.start_date > resp'.end_date) )
          => NonOverlapping(room_rates') ]_vars

\* The handler died after the insert of the new row, with the split of an
\* older row already sent: the committed rows are still the older row.
C14_Witness ==
    /\ resp.op = "crash" /\ resp.pc = "commit"
    /\ \E x \in Rows(room_rates) :
          /\ x.date_from < resp.start_date /\ resp.end_date < x.date_to
          /\ x.price # resp.price
          /\ NumRows(room_rates) = 1

IsWebhook(rsp) == rsp.op = "send_webhook_event"

\* The request went out with the payload's text as its body and, exactly
\* when a non-empty secret was given, the signature of that body.
SignedAsSent(rsp) ==
    \A r \in rsp.requests :
        /\ r.content = JsonDumps(rsp.payload)
        /\ (\E h \in r.headers : h[1] = "X-Hub-Signature-256")
             <=> (rsp.secret # NoSecret /\ rsp.secret # "")
        /\ \A h \in r.headers :
              h[1] = "X-Hub-Signature-256"
                => h[2] = <<"sha256=", HmacSha256(rsp.secret, r.content)>>

\* C17 as stated: the result is (True, message, status) exactly when the
\* response has a success status, (False, "Webhook failed with status N",
\* N) for every other response and (False, "Connection error: ...", None)
\* whenever there is no response; the signature header is sent exactly
\* when a secret is given and signs the body sent.
C17_ThreeOutcomes ==
    IsWebhook(resp) =>
      /\ resp.result[1] <=> (resp.requests # {} /\ resp.net.kind = "response"
                              /\ 200 <= resp.net.status_code /\ resp.net.status_code <= 299)
      /\ (resp.requests # {} /\ resp.net.kind = "response" /\ ~resp.result[1])
           => resp.result = <<FALSE, <<"Webhook failed with status", resp.net.status_code>>,
                              resp.net.status_code>>
      /\ (resp.requests = {} \/ resp.net.kind # "response")
           => /\ resp.result[1] = FALSE /\ resp.result[3] = NoStatus
              /\ resp.result[2][1] = "Connection error"
      /\ SignedAsSent(resp)

\* C17 amended: as stated, except that the message is "Connection error:
\* ..." only when the request raised httpx.RequestError; when the payload
\* cannot be serialized or the url is rejected before anything is sent,
\* the result is (False, "Unexpected error: ...", None).
C17_Outcome ==
    IsWebhook(resp) =>
      /\ resp.result[1] <=> (resp.requests # {} /\ resp.net.kind = "response"
                              /\ 200 <= resp.net.status_code /\ resp.net.status_code <= 299)
      /\ (resp.requests # {} /\ resp.net.kind = "response" /\ ~resp.result[1])
           => resp.result = <<FALSE, <<"Webhook failed with status", resp.net.status_code>>,
                              resp.net.status_code>>
      /\ (resp.requests # {} /\ resp.net.kind = "request_error")
           => resp.result = <<FALSE, <<"Connection error", resp.net.error>>, NoStatus>>
      /\ resp.requests = {}
           => /\ ~resp.payload.serializable \/ ~resp.url.valid
              /\ resp.result[1] = FALSE /\ resp.result[3] = NoStatus
              /\ resp.result[2][1] = "Unexpected error"
      /\ (resp.payload.serializable /\ resp.url.valid) => resp.requests # {}
      /\ SignedAsSent(resp)

\* A signed request answered with a redirect: reported as a failure with
\* the status of the response.
C17_Witness ==
    /\ IsWebhook(resp) /\ resp.secret = "s1"
    /\ resp.net.kind = "response" /\ resp.net.status_code = 301
    /\ resp.result = <<FALSE, <<"Webhook failed with status", 301>>, 301>>
    /\ \E r \in resp.requests :
          <<"X-Hub-Signature-256", <<"sha256=", HmacSha256("s1", r.content)>>>> \in r.headers

\* The room types a search can sell: active, large enough for the party,
\* with a unit free for the stay, in a hotel with an active rate plan.
Sellable(rsp) ==
    { rt \in room_types :
        /\ rt.hotel_id = rsp.hotel_id /\ rt.is_active
        /\ rt.max_occupancy >= rsp.guests /\ rt.max_children >= rsp.children
        /\ SearchAvailable(rt, rsp.hotel_id, rsp.check_in, rsp.check_out) > 0
        /\ \E pl \in rate_plans : pl.hotel_id = rsp.hotel_id /\ pl.is_active }

\* C18: every search that has a room type to sell completes, also when
\* override rows meet the stay, and the total before the promo of each
\* active plan is the sum over the nights check_in .. check_out - 1 of the
\* price get_availability reports for the night (the override, else the
\* base price) plus the plan's adjustment plus the extra-guest surcharge.
C18_NightlyPricing ==
    (IsSearch(resp) /\ Sellable(resp) # {})
    => /\ resp.status = 200
       /\ \A rt \in Sellable(resp) :
             /\ rt.id \in DOMAIN resp.body
             /\ \A pl \in { x \in rate_plans : x.hotel_id = resp.hotel_id /\ x.is_active } :
                   LET opt == resp.body[rt.id].rate_options[pl.id]
                       nights == resp.check_in..(resp.check_out - 1)
                       extra == Max(0, resp.guests - rt.base_occupancy)
                       rate(d) == CHOOSE q \in LookupPrices(room_rates, room_types,
                                                            resp.hotel_id, rt.id, d) : TRUE
                   IN opt.total_price + opt.savings
                      = SumOver([d \in nights |->
                                   rate(d) + pl.price_adjustment
                                   + extra * rt.extra_person_price], nights)

C20_PromoValidity ==
    (IsSearch(resp) /\ resp.status = 200 /\ resp.promo_code # NoPromo)
    => \A today \in Days :
         (~\E x \in Rows(promo_codes) :
              /\ x.hotel_id = resp.hotel_id /\ x.code = resp.promo_code
              /\ x.is_active /\ PromoValid(x, today))
         => \A id \in DOMAIN resp.body : \A pid \in DOMAIN resp.body[id].rate_options :
              LET rt == CHOOSE x \in room_types : x.id = id
                  pl == CHOOSE x \in rate_plans : x.id = pid
                  opt == resp.body[id].rate_options[pid]
              IN /\ opt.savings = 0
                 /\ opt.total_price
                    = TotalPlanPrice(rt, pl, <<>>, resp.check_in, resp.check_out, resp.guests)

\* The units of room type rt free on every night of a stay: the least over
\* the nights of total_inventory - booked - blocked.
FreeUnits(rt, check_in, check_out) ==
    LET booked(d) ==
          LET occ == { k \in Rows(bookings) :
                         /\ k.hotel_id = rt.hotel_id /\ k.status # "cancelled"
                         /\ k.check_in <= d /\ d < k.check_out }
          IN SumOver([k \in occ |-> Copies(bookings, k) * Entries(k.rooms, rt.id)], occ)
        blocked(d) ==
          LET blk == { k \in Rows(room_blocks) :
                         /\ k.hotel_id = rt.hotel_id /\ k.room_type_id = rt.id
                         /\ k.start_date <= d /\ d <= k.end_date }
          IN SumOver([k \in blk |-> Copies(room_blocks, k) * k.blocked_count], blk)
    IN MinOf({ rt.total_inventory - booked(d) - blocked(d) : d \in check_in..(check_out - 1) })

\* C21: every room type a search returns has available_rooms >= 1 (and a
\* unit free on every night of the stay), one rate option for each active
\* rate plan of the hotel and no other, at least one, and
\* price_starting_at equal to the least total_price of its options.
C21_OnlySellable ==
    (IsSearch(resp) /\ resp.status = 200)
    => \A id \in DOMAIN resp.body :
         LET rt == CHOOSE x \in room_types : x.id = id
             opts == resp.body[id].rate_options
         IN /\ resp.body[id].available_rooms >= 1
            /\ resp.check_in < resp.check_out
                 => FreeUnits(rt, resp.check_in, resp.check_out) >= 1
            /\ DOMAIN opts = { pl.id : pl \in { x \in rate_plans :
                                   x.hotel_id = resp.hotel_id /\ x.is_active } }
            /\ DOMAIN opts # {}
            /\ \E pid \in DOMAIN opts : opts[pid].total_price = resp.body[id].price_starting_at
            /\ \A pid \in DOMAIN opts : opts[pid].total_price >= resp.body[id].price_starting_at

\* A room type returned with its last unit, two options at different
\* totals, while the hotel also has an inactive plan.
C21_Witness ==
    /\ IsSearch(resp) /\ resp.status = 200
    /\ \E pl \in rate_plans : ~pl.is_active
    /\ \E id \in DOMAIN resp.body :
          /\ resp.body[id].available_rooms = 1
          /\ \E p, q \in DOMAIN resp.body[id].rate_options :
                resp.body[id].rate_options[p].total_price
                < resp.body[id].rate_options[q].total_price

\* C22: a search with check_out <= check_in or guests <= 0 and a
\* get_availability request with end_date < start_date are answered with
\* a client error; in every accepted search each plan's total before the
\* promo is the sum of max(1, check_out - check_in) nightly rates.
C22_RejectInvalidReads ==
    /\ (IsSearch(resp) /\ (resp.check_out <= resp.check_in \/ resp.guests <= 0))
         => (400 <= resp.status /\ resp.status <= 499)
    /\ (IsAvailability(resp) /\ resp.end_date < resp.start_date)
         => (400 <= resp.status /\ resp.status <= 499)
    /\ (IsSearch(resp) /\ resp.status = 200)
         => \A id \in DOMAIN resp.body : \A pid \in DOMAIN resp.body[id].rate_options :
              LET rt == CHOOSE x \in room_types : x.id = id
                  pl == CHOOSE x \in rate_plans : x.id = pid
                  opt == resp.body[id].rate_options[pid]
              IN opt.total_price + opt.savings
                 = Nights(resp.check_in, resp.check_out)
                   * NightlyRate(rt, pl, <<>>, resp.check_in, resp.guests)

\* C23: update_daily_rates and create_block with a room_type_id that does
\* not exist or is another hotel's are answered with a client error, and
\* every stored rate range and block references a room type of its own
\* hotel.
C23_RoomTypeChecked ==
    /\ (/\ resp.op \in {"update_daily_rates", "create_block"}
        /\ ~\E rt \in room_types : rt.id = resp.room_type_id /\ rt.hotel_id = resp.hotel_id)
         => (400 <= resp.status /\ resp.status <= 499)
    /\ \A k \in Rows(room_rates) \cup Rows(room_blocks) :
          \E rt \in room_types : rt.id = k.room_type_id /\ rt.hotel_id = k.hotel_id

IsDeleteRoom(rsp) == rsp.op = "delete_room"

\* C24: delete_room(r) succeeds exactly for a room type of the caller's
\* hotel; afterwards the room type is gone, no rate range or block names r,
\* and the rate ranges and blocks of the other room types, the bookings,
\* the plans and the promos are as before.  A delete_room for an id that
\* names no room type, or another hotel's, answers 404 and deletes nothing.
C24_DeleteRoom ==
    [][IsDeleteRoom(resp') =>
        LET r == resp'.id
            owned == { x \in room_types : x.id = r /\ x.hotel_id = resp'.hotel_id }
            others(table) == { k \in Rows(table) : k.room_type_id # r }
        IN IF owned # {}
           THEN /\ resp'.status = 204
                /\ room_types' = room_types \ owned
                /\ Rows(room_rates') = others(room_rates)
                /\ Rows(room_blocks') = others(room_blocks)
                /\ \A k \in others(room_rates) :
                      Copies(room_rates', k) = Copies(room_rates, k)
                /\ \A k \in others(room_blocks) :
                      Copies(room_blocks', k) = Copies(room_blocks, k)
                /\ UNCHANGED <<bookings, rate_plans, promo_codes>>
           ELSE /\ resp'.status = 404
                /\ UNCHANGED <<room_types, room_rates, room_blocks, bookings,
                               rate_plans, promo_codes>>]_vars

\* A room type was deleted while a rate range and a block of another room
\* type stay stored.
C24_Witness ==
    /\ IsDeleteRoom(resp) /\ resp.status = 204
    /\ \E k \in Rows(room_rates) : k.room_type_id # resp.id
    /\ \E k \in Rows(room_blocks) : k.room_type_id # resp.id
    /\ \E k \in Rows(bookings) : TRUE

\* C25: the units the search computes for a room type are its inventory
\* less the entries of the bookings and the counts of the blocks that cover
\* at least one night of the stay [check_in, check_out); a booking or a
\* block covering no night, such as a block starting on the check-out
\* date, takes nothing away.
C25_CoveredNightsOnly ==
    ( /\ IsSearch(resp) /\ resp.status = 200 /\ resp.check_in < resp.check_out
      /\ \E pl \in rate_plans : pl.hotel_id = resp.hotel_id /\ pl.is_active )
    => \A rt \in { x \in room_types :
                     /\ x.hotel_id = resp.hotel_id /\ x.is_active
                     /\ x.max_occupancy >= resp.guests
                     /\ x.max_children >= resp.children } :
         LET nights == resp.check_in..(resp.check_out - 1)
             occ == { k \in Rows(bookings) :
                        /\ k.hotel_id = resp.hotel_id /\ k.status # "cancelled"
                        /\ \E d \in nights : k.check_in <= d /\ d < k.check_out }
             blk == { k \in Rows(room_blocks) :
                        /\ k.hotel_id = resp.hotel_id /\ k.room_type_id = rt.id
                        /\ \E d \in nights : k.start_date <= d /\ d <= k.end_date }
             units == rt.total_inventory
                      - SumOver([k \in occ |-> Copies(bookings, k) * Entries(k.rooms, rt.id)], occ)
                      - SumOver([k \in blk |-> Copies(room_blocks, k) * k.blocked_count], blk)
         IN /\ (units >= 1) <=> (rt.id \in DOMAIN resp.body)
            /\ rt.id \in DOMAIN resp.body => resp.body[rt.id].available_rooms = units

IsBlockTool(rsp) == rsp.op = "block_room_dates"

\* C26: block_room_dates with two valid ISO dates and a name matching a
\* room type of the caller's hotel stores one block of count 1 under the
\* caller's hotel, so that blockedRooms of get_availability goes up by 1 on
\* every day of [start, end]; with a malformed date it stores nothing.
C26_AgentBlock ==
    [][IsBlockTool(resp') =>
        LET h == HotelOf(resp'.user_id)
            match == { rt \in room_types : rt.hotel_id = h /\ rt.id \in resp'.names }
        IN IF ~resp'.dates_ok
           THEN UNCHANGED room_blocks
           ELSE match # {} =>
                  \E rt \in match :
                     /\ room_blocks' = room_blocks
                           (+) SetToBag({RoomBlock(h, rt.id, resp'.start_date,
                                                   resp'.end_date, 1)})
                     /\ \A d \in resp'.start_date..resp'.end_date :
                           DayReport(rt, d)'.blockedRooms
                           = DayReport(rt, d).blockedRooms + 1]_vars

\* C27: when an update_daily_rates call commits after another call for the
\* same room type whose window shares a day with its own, whether or not
\* the other call committed between its select and its commit, no two
\* base-price rows of the room type share a day, and every day of the
\* common window is covered by exactly one row, at the price of one of the
\* two calls.
C27_ConcurrentWriters ==
    [][ ( /\ session.pc = "commit" /\ IsRateUpdate(resp') /\ IsRateUpdate(resp)
          /\ resp.hotel_id = resp'.hotel_id /\ resp.room_type_id = resp'.room_type_id
          /\ NonOverlapping(room_rates) )
        => /\ NonOverlapping(room_rates')
           /\ \A d \in Days :
                 ( /\ resp.start_date <= d /\ d <= resp.end_date
                   /\ resp'.start_date <= d /\ d <= resp'.end_date )
                 => \E x \in Rows(room_rates') :
                       /\ IsBaseOf(x, resp'.hotel_id, resp'.room_type_id)
                       /\ x.date_from <= d /\ d <= x.date_to
                       /\ x.price \in {resp.price, resp'.price} ]_vars

\* What get_availability can answer hotel h for the whole calendar.
AvailabilityOutputs(h) ==
    { AvailabilityData(h, 1, MaxDay, rs) :
        rs \in Orderings(DailyRates(room_rates, h, 1, MaxDay)) }

\* What the public search can answer for hotel h, stay by stay.
SearchOutputs(h) ==
    [st \in StayInputs |-> SearchResponses(h, st[1], st[2], 2, 0, NoPromo)]

AuthenticatedOps ==
    {"update_daily_rates", "create_block", "delete_block", "delete_room", "cancel_booking"}

\* C28: no update_daily_rates, create_block, delete_block, delete_room or
\* cancel_booking request of a user of hotel h1, whatever identifier it
\* carries, changes what get_availability or the public search answers for
\* hotel h2.
C28_TenantIsolation ==
    [][ (resp'.op \in AuthenticatedOps /\ resp'.hotel_id = "h1")
        => /\ AvailabilityOutputs("h2")' = AvailabilityOutputs("h2")
           /\ SearchOutputs("h2")' = SearchOutputs("h2") ]_vars

\* C29: whatever promos are created through create_promo and through the
\* agent's create_promo_code tool, in whatever letter case, a hotel stores
\* at most one promo per code, and the lookup of the search never meets
\* two: a search with a promo code is answered.
C29_PromoUnique ==
    /\ \A x, y \in Rows(promo_codes) :
          (x.hotel_id = y.hotel_id /\ x.code = y.code)
          => (x = y /\ Copies(promo_codes, x) = 1)
    /\ (IsSearch(resp) /\ resp.promo_code # NoPromo) => resp.status = 200

\* The bookings of the promo's hotel that carry its code.
BookingsWith(promo) ==
    LET bs == { k \in Rows(bookings) :
                  k.hotel_id = promo.hotel_id /\ k.promo_code = promo.code }
    IN SumOver([k \in bs |-> Copies(bookings, k)], bs)

\* C30: for a promo with max_usage N, current_usage is the number of
\* bookings created with its code, that number never exceeds N, and once
\* it has reached N validate_promo answers that the code is not valid
\* (every validate_promo request sent is for the capped promo).
C30_UsageCap ==
    \A promo \in { x \in Rows(promo_codes) : x.max_usage # 0 - 1 } :
        /\ promo.current_usage = BookingsWith(promo)
        /\ BookingsWith(promo) <= promo.max_usage
        /\ (resp.op = "validate_promo" /\ BookingsWith(promo) >= promo.max_usage)
           => ~resp.valid

====
